---- MODULE Spec2Model ----
(***************************************************************************)
(* A model of the parallel process-orchestration core of downloader.py:    *)
(* the interactive start action, the coordinator thread (run_downloads),   *)
(* the bounded worker pool, one Worker Runner per URL                      *)
(* (run_yt_dlp_for_url), the shared log under LOG_LOCK, the event queue    *)
(* and the Event Sink (process_queue); CLI mode (cli_main) with the same   *)
(* runners and no queue; and the pure functions read_urls_from_text,       *)
(* read_urls_from_file, build_command and infer_status called on their     *)
(* own.                                                                    *)
(*                                                                         *)
(* Threads interleave at every blocking call and at every access to a      *)
(* shared object (the lock, the log file, the event queue, a future).      *)
(* The external process is the environment: what it prints, its exit code  *)
(* and the operating-system failures around it are inputs of a batch.      *)
(***************************************************************************)
EXTENDS Integers, Sequences, FiniteSets, TLC

(***************************************************************************)
(* Program constants and bounds of the model.                              *)
(***************************************************************************)
MAX_WORKERS == 4

MaxJobs == 2

MaxLines == 2

MaxBatches == 1

PoolExtra == 1

(***************************************************************************)
(* Text.  A URL source is a sequence of characters, "\n" ending a line; a  *)
(* line of process output is a sequence of fragments (words).              *)
(***************************************************************************)
\* the characters str.strip() removes
Whitespace == {" ", "\n"}

RECURSIVE lstrip(_)
lstrip(l) == IF l # <<>> /\ Head(l) \in Whitespace THEN lstrip(Tail(l)) ELSE l

RECURSIVE rstrip(_)
rstrip(l) ==
    IF l # <<>> /\ l[Len(l)] \in Whitespace
    THEN rstrip(SubSeq(l, 1, Len(l) - 1)) ELSE l

\* a strip that leaves the end of the line as it is
strip_left_only(l) == lstrip(l)

strip(l) == rstrip(lstrip(l))

\* where the first line of a text ends: at its first "\n", or past its end
LineEnd(text) ==
    IF \E k \in 1..Len(text) : text[k] = "\n"
    THEN CHOOSE k \in 1..Len(text) :
            text[k] = "\n" /\ \A j \in 1..(k - 1) : text[j] # "\n"
    ELSE Len(text) + 1

\* for l in text.splitlines(): the lines come without their "\n"
RECURSIVE read_urls_from_text(_)
read_urls_from_text(text) ==
    IF text = <<>> THEN <<>>
    ELSE LET k == LineEnd(text)
             l == strip(SubSeq(text, 1, k - 1))
             rest == SubSeq(text, k + 1, Len(text))
         IN  IF l = <<>> \/ Head(l) = "#"
             THEN read_urls_from_text(rest)
             ELSE <<l>> \o read_urls_from_text(rest)

\* for l in f: the lines of URLS_FILE come with their "\n"; the check that
\* the list is not empty is in CliReadUrls
RECURSIVE read_urls_from_file(_)
read_urls_from_file(text) ==
    IF text = <<>> THEN <<>>
    ELSE LET k == LineEnd(text)
             l == strip(SubSeq(text, 1, IF k > Len(text) THEN Len(text) ELSE k))
             rest == SubSeq(text, k + 1, Len(text))
         IN  IF l = <<>> \/ Head(l) = "#"
             THEN read_urls_from_file(rest)
             ELSE <<l>> \o read_urls_from_file(rest)

AUDIO_FORMATS == {"mp3", "aac", "flac", "webm", "mp4"}

PLAYLIST_MODES == {"single", "playlist"}

\* str.lower() on the fragments an output line is made of
lower(w) ==
    CASE w = "ERROR" -> "error"
      [] w = "Error" -> "error"
      [] w = "WARNING" -> "warning"
      [] w = "Embedding" -> "embedding"
      [] w = "Adding Metadata" -> "adding metadata"
      [] w = "Deleting original" -> "deleting original"
      [] w = "Extracting audio" -> "extracting audio"
      [] w = "FFmpeg" -> "ffmpeg"
      [] w = "Destination" -> "destination"
      [] OTHER -> w

\* "kw in lowered": the lowered line contains the keyword
contains(line, kw) == \E k \in 1..Len(line) : lower(line[k]) = kw

\* the result None of infer_status
None == "None"

\* a classifier that tests the generic keywords before the specific ones
infer_status_generic_first(line) ==
    IF contains(line, "warning")
    THEN "warning"
    ELSE IF contains(line, "error")
    THEN "error"
    ELSE IF contains(line, "extracting audio") \/ contains(line, "post-process")
          \/ contains(line, "ffmpeg")
    THEN "converting"
    ELSE IF contains(line, "adding metadata") \/ contains(line, "embedding")
    THEN "tagging"
    ELSE IF contains(line, "deleting original")
    THEN "cleanup"
    ELSE IF contains(line, "[download]") \/ contains(line, "%")
          \/ contains(line, "destination")
    THEN "downloading"
    ELSE None

infer_status(line) ==
    IF contains(line, "extracting audio") \/ contains(line, "post-process")
          \/ contains(line, "ffmpeg")
    THEN "converting"
    ELSE IF contains(line, "adding metadata") \/ contains(line, "embedding")
    THEN "tagging"
    ELSE IF contains(line, "deleting original")
    THEN "cleanup"
    ELSE IF contains(line, "warning")
    THEN "warning"
    ELSE IF contains(line, "error")
    THEN "error"
    ELSE IF contains(line, "[download]") \/ contains(line, "%")
          \/ contains(line, "destination")
    THEN "downloading"
    ELSE None

(***************************************************************************)
(* The Command Builder.  Arguments are strings.                            *)
(***************************************************************************)
BIN == "bin"

YT_DLP_EXE == BIN \o "/yt-dlp.exe"

PARALLEL_FRAGMENTS == "16"

CONCURRENT_FRAGMENTS == "16"

AUDIO_QUALITY == "0"

\* a list.append(x) in the place of insert(-1, x)
insert_at_end(cmd, x) == cmd \o <<x>>

\* list.insert(-1, x): x goes in front of the last element
insert_before_last(cmd, x) ==
    SubSeq(cmd, 1, Len(cmd) - 1) \o <<x>> \o <<cmd[Len(cmd)]>>

build_command(url, output_dir, audio_format, playlist_mode) ==
    LET outtmpl == output_dir \o "/%(title)s.%(ext)s"
        cmd == <<YT_DLP_EXE, "-f", "bestaudio/best", "--js-runtimes", "node",
                 "--extract-audio", "--audio-format", audio_format,
                 "--audio-quality", AUDIO_QUALITY, "-o", outtmpl,
                 "-N", PARALLEL_FRAGMENTS,
                 "--concurrent-fragments", CONCURRENT_FRAGMENTS,
                 "--ffmpeg-location", BIN,
                 "--add-metadata", "--embed-metadata", "--embed-thumbnail",
                 "--progress", "--newline", "--ignore-errors", "--no-mtime",
                 "--restrict-filenames", url>>
    IN  IF playlist_mode = "single"
        THEN insert_before_last(cmd, "--no-playlist")
        ELSE cmd

(***************************************************************************)
(* Events of the event channel.  text is [prefix, line]: the index the     *)
(* runner puts in front of the line (0 for a line of the coordinator) and  *)
(* the line.                                                               *)
(***************************************************************************)
NoText == [prefix |-> 0, line |-> <<>>]

LogEvent(prefix, line) ==
    [type |-> "log", index |-> 0, status |-> "",
     text |-> [prefix |-> prefix, line |-> line]]

StatusEvent(index, status) ==
    [type |-> "status", index |-> index, status |-> status, text |-> NoText]

DoneEvent == [type |-> "done", index |-> 0, status |-> "", text |-> NoText]

\* the job an event is about: the index of a status event, the prefix of a
\* log line; 0 for what the coordinator says about the batch
JobOf(e) == IF e.type = "status" THEN e.index ELSE e.text.prefix

\* f"failed ({code})"
FailedStatus(code) ==
    CASE code = 1 -> "failed (1)"
      [] code = 2 -> "failed (2)"
      [] code = -1 -> "failed (-1)"
      [] OTHER -> "failed (?)"

\* a classification that takes any code but the sentinel for success
FinalStatusLax(code) == IF code >= 0 THEN "done" ELSE FailedStatus(code)

FinalStatus(code) == IF code = 0 THEN "done" ELSE FailedStatus(code)

(***************************************************************************)
(* State.                                                                  *)
(***************************************************************************)
VARIABLES
    start_button,   \* "normal" or "disabled" (set_controls_state)
    status_tree,    \* the job rows: index -> [status, url]
    dialog,         \* the message box start_downloads showed last, or "none"
    batch,          \* how many batches were started
    event_queue,    \* self.event_queue: the events pushed and not yet drained
    urls,           \* the URL list the coordinator thread was started with
    env,            \* the environment: [jobs, prov], and file in CLI mode
    mode,           \* "gui" or "cli": whether the runners are given a queue
    cpc,            \* where the coordinator thread is in run_downloads
    cur,            \* the job whose result the coordinator is reporting
    ac_finished,    \* as_completed: the futures found done when it began
    ac_waiter,      \* as_completed: futures done since, in completion order
    yielded,        \* the futures as_completed has yielded, in that order
    pc,             \* per job: where its runner is
    pos,            \* per job: how many lines its runner has read
    retcode,        \* per job: <<>> (None) or <<code>>
    proc,           \* per job: "none", "alive", "exited", "killed"
    lphase,         \* per job: 1 inside the write-and-flush of log_line, else 0
    LOG_LOCK,       \* 0 when free, else the job whose runner holds it
    logf,           \* per job: the complete lines written through its handle
    log_tail,       \* the writers with an unfinished line at the end of LOG_FILE
    log_torn,       \* a line of LOG_FILE has part of another line inside it
    err_log,        \* ERR_LOG_FILE: the URLs of its diagnostic lines
    pushed,         \* history: per job, the events pushed about it
    sunk,           \* history: per job, the events the sink has handled
    completed,      \* history: the jobs in the order their futures completed
    call_args,      \* the arguments of a function called on its own, or <<>>
    call_result     \* <<>>, or <<r>> when the function called has returned r

ui == <<start_button, status_tree, dialog, batch>>
coord == <<cpc, cur, ac_finished, ac_waiter, yielded>>
args == <<urls, env, mode>>
runners == <<pc, pos, retcode, proc>>
logs == <<lphase, LOG_LOCK, logf, log_tail, log_torn>>
chan == <<event_queue, pushed>>
call == <<call_args, call_result>>
vars == <<ui, args, call, coord, runners, logs, chan, err_log, sunk, completed>>

Jobs == 1..Len(urls)

Keys == 0..Len(urls)

Init ==
    /\ start_button = "normal"
    /\ status_tree = <<>>
    /\ dialog = "none"
    /\ batch = 0
    /\ event_queue = <<>>
    /\ urls = <<>>
    /\ env = [jobs |-> <<>>, prov |-> "none"]
    /\ mode = "gui"
    /\ cpc = "idle"
    /\ cur = 0
    /\ ac_finished = {}
    /\ ac_waiter = <<>>
    /\ yielded = <<>>
    /\ pc = <<>>
    /\ pos = <<>>
    /\ retcode = <<>>
    /\ proc = <<>>
    /\ lphase = <<>>
    /\ LOG_LOCK = 0
    /\ logf = <<>>
    /\ log_tail = {}
    /\ log_torn = FALSE
    /\ err_log = <<>>
    /\ pushed = <<>>
    /\ sunk = <<>>
    /\ completed = <<>>
    /\ call_args = <<>>
    /\ call_result = <<>>

(***************************************************************************)
(* The event channel.                                                      *)
(***************************************************************************)
\* a channel that hands out the newest event first
put_front(q, e) == <<e>> \o q

\* Queue.put: the event joins the tail of the queue
put(q, e) == Append(q, e)

\* queue_event: nothing happens when event_queue is None, as it is for the
\* runners of CLI mode
queue_event(e) ==
    IF mode = "cli"
    THEN UNCHANGED chan
    ELSE /\ event_queue' = put(event_queue, e)
         /\ pushed' = [pushed EXCEPT ![JobOf(e)] = Append(@, e)]

\* a drain that takes the event after the head along with it
get_nowait_two(q) == IF Len(q) > 1 THEN Tail(Tail(q)) ELSE Tail(q)

\* Queue.get_nowait: what is left after the head is taken
get_nowait(q) == Tail(q)

(***************************************************************************)
(* The start action.                                                       *)
(***************************************************************************)
\* one row per URL, status "queued"
NewTree(us) == [i \in 1..Len(us) |-> [status |-> "queued", url |-> us[i]]]

\* a start action that empties the table before it looks at the form
start_downloads_clears_first(text, audio_format, playlist_mode, e) ==
    /\ mode = "gui"
    /\ start_button = "normal"
    /\ LET us == read_urls_from_text(text)
       IN  IF us = <<>>
           THEN /\ dialog' = "Brak URL"
                /\ status_tree' = <<>>
                /\ UNCHANGED <<start_button, batch, args, call, coord,
                               runners, logs, chan, err_log, sunk, completed>>
           ELSE IF audio_format \notin AUDIO_FORMATS
           THEN /\ dialog' = "Nieprawidlowy format"
                /\ status_tree' = <<>>
                /\ UNCHANGED <<start_button, batch, args, call, coord,
                               runners, logs, chan, err_log, sunk, completed>>
           ELSE IF playlist_mode \notin PLAYLIST_MODES
           THEN /\ dialog' = "Nieprawidlowy tryb"
                /\ status_tree' = <<>>
                /\ UNCHANGED <<start_button, batch, args, call, coord,
                               runners, logs, chan, err_log, sunk, completed>>
           ELSE /\ Len(e.jobs) = Len(us)
                /\ status_tree' = NewTree(us)
                /\ start_button' = "disabled"
                /\ dialog' = "none"
                /\ batch' = batch + 1
                /\ urls' = us
                /\ env' = e
                /\ cpc' = "ensure_dirs"
                /\ cur' = 0
                /\ ac_finished' = {}
                /\ ac_waiter' = <<>>
                /\ yielded' = <<>>
                /\ pc' = [i \in 1..Len(us) |-> "new"]
                /\ pos' = [i \in 1..Len(us) |-> 0]
                /\ retcode' = [i \in 1..Len(us) |-> <<>>]
                /\ proc' = [i \in 1..Len(us) |-> "none"]
                /\ lphase' = [i \in 1..Len(us) |-> 0]
                /\ logf' = [i \in 1..Len(us) |-> <<>>]
                /\ pushed' = [k \in 0..Len(us) |-> <<>>]
                /\ sunk' = [k \in 0..Len(us) |-> <<>>]
                /\ completed' = <<>>
                /\ UNCHANGED <<event_queue, LOG_LOCK, log_tail, log_torn, err_log,
                               mode, call>>

\* start_downloads(): text, audio_format and playlist_mode are what the form
\* holds; e is the environment the accepted batch will run in.  The form
\* exists in interactive mode only.
start_downloads(text, audio_format, playlist_mode, e) ==
    /\ mode = "gui"
    /\ start_button = "normal"
    /\ LET us == read_urls_from_text(text)
       IN  IF us = <<>>
           THEN /\ dialog' = "Brak URL"
                /\ UNCHANGED <<start_button, status_tree, batch, args, call, coord,
                               runners, logs, chan, err_log, sunk, completed>>
           ELSE IF audio_format \notin AUDIO_FORMATS
           THEN /\ dialog' = "Nieprawidlowy format"
                /\ UNCHANGED <<start_button, status_tree, batch, args, call, coord,
                               runners, logs, chan, err_log, sunk, completed>>
           ELSE IF playlist_mode \notin PLAYLIST_MODES
           THEN /\ dialog' = "Nieprawidlowy tryb"
                /\ UNCHANGED <<start_button, status_tree, batch, args, call, coord,
                               runners, logs, chan, err_log, sunk, completed>>
           ELSE /\ Len(e.jobs) = Len(us)
                /\ status_tree' = NewTree(us)
                /\ start_button' = "disabled"
                /\ dialog' = "none"
                /\ batch' = batch + 1
                /\ urls' = us
                /\ env' = e
                /\ cpc' = "ensure_dirs"
                /\ cur' = 0
                /\ ac_finished' = {}
                /\ ac_waiter' = <<>>
                /\ yielded' = <<>>
                /\ pc' = [i \in 1..Len(us) |-> "new"]
                /\ pos' = [i \in 1..Len(us) |-> 0]
                /\ retcode' = [i \in 1..Len(us) |-> <<>>]
                /\ proc' = [i \in 1..Len(us) |-> "none"]
                /\ lphase' = [i \in 1..Len(us) |-> 0]
                /\ logf' = [i \in 1..Len(us) |-> <<>>]
                /\ pushed' = [k \in 0..Len(us) |-> <<>>]
                /\ sunk' = [k \in 0..Len(us) |-> <<>>]
                /\ completed' = <<>>
                /\ UNCHANGED <<event_queue, LOG_LOCK, log_tail, log_torn, err_log,
                               mode, call>>

(***************************************************************************)
(* The coordinator thread: run_downloads.                                  *)
(***************************************************************************)
CoordLine(w) == LogEvent(0, <<w>>)

\* ensure_dirs(): an exception here is caught by nothing
EnsureDirs ==
    /\ cpc = "ensure_dirs"
    /\ cpc' = IF env.prov = "dirs" THEN "died" ELSE "ensure_yt_dlp"
    /\ UNCHANGED <<ui, args, call, cur, ac_finished, ac_waiter, yielded, runners,
                   logs, chan, err_log, sunk, completed>>

\* a coordinator that reports the failure and goes on
EnsureYtDlpGoesOn ==
    /\ cpc = "ensure_yt_dlp"
    /\ IF env.prov = "yt_dlp"
       THEN queue_event(CoordLine("Failed to ensure yt-dlp"))
       ELSE UNCHANGED chan
    /\ cpc' = "ensure_ffmpeg"
    /\ UNCHANGED <<ui, args, call, cur, ac_finished, ac_waiter, yielded, runners,
                   logs, err_log, sunk, completed>>

\* try: ensure_yt_dlp() except: log event, then done event, return
EnsureYtDlp ==
    /\ cpc = "ensure_yt_dlp"
    /\ IF env.prov = "yt_dlp"
       THEN /\ queue_event(CoordLine("Failed to ensure yt-dlp"))
            /\ cpc' = "yt_dlp_failed"
       ELSE /\ cpc' = "ensure_ffmpeg"
            /\ UNCHANGED chan
    /\ UNCHANGED <<ui, args, call, cur, ac_finished, ac_waiter, yielded, runners,
                   logs, err_log, sunk, completed>>

YtDlpFailedDone ==
    /\ cpc = "yt_dlp_failed"
    /\ queue_event(DoneEvent)
    /\ cpc' = "returned"
    /\ UNCHANGED <<ui, args, call, cur, ac_finished, ac_waiter, yielded, runners,
                   logs, err_log, sunk, completed>>

\* try: ensure_ffmpeg() except: two log events, and the batch goes on
EnsureFfmpeg ==
    /\ cpc = "ensure_ffmpeg"
    /\ IF env.prov = "ffmpeg"
       THEN /\ queue_event(CoordLine("Failed to ensure ffmpeg"))
            /\ cpc' = "ffmpeg_warning"
       ELSE /\ cpc' = "mkdir"
            /\ UNCHANGED chan
    /\ UNCHANGED <<ui, args, call, cur, ac_finished, ac_waiter, yielded, runners,
                   logs, err_log, sunk, completed>>

FfmpegWarning ==
    /\ cpc = "ffmpeg_warning"
    /\ queue_event(CoordLine("WARNING"))
    /\ cpc' = "mkdir"
    /\ UNCHANGED <<ui, args, call, cur, ac_finished, ac_waiter, yielded, runners,
                   logs, err_log, sunk, completed>>

\* output_dir.mkdir(parents=True, exist_ok=True): outside any try
Mkdir ==
    /\ cpc = "mkdir"
    /\ cpc' = IF env.prov = "mkdir" THEN "died" ELSE "submit"
    /\ UNCHANGED <<ui, args, call, cur, ac_finished, ac_waiter, yielded, runners,
                   logs, chan, err_log, sunk, completed>>

\* exe.submit(...) for the next URL of the comprehension; once every URL is
\* submitted the comprehension ends and as_completed is called
Submit ==
    /\ cpc = "submit"
    /\ IF \E i \in Jobs : pc[i] = "new"
       THEN LET i == CHOOSE k \in Jobs :
                        pc[k] = "new" /\ \A j \in 1..(k - 1) : pc[j] # "new"
            IN  /\ pc' = [pc EXCEPT ![i] = "pending"]
                /\ UNCHANGED cpc
       ELSE /\ cpc' = "as_completed"
            /\ UNCHANGED pc
    /\ UNCHANGED <<ui, args, call, cur, ac_finished, ac_waiter, yielded, pos,
                   retcode, proc, logs, chan, err_log, sunk, completed>>

IsDone(i) == pc[i] \in {"DONE", "RAISED"}

Yielded == {yielded[k] : k \in 1..Len(yielded)}

\* as_completed(futures) begins: the futures already done are set apart, a
\* waiter is installed on the others
AsCompleted ==
    /\ cpc = "as_completed"
    /\ ac_finished' = {i \in Jobs : IsDone(i)}
    /\ cpc' = "collect"
    /\ UNCHANGED <<ui, args, call, cur, ac_waiter, yielded, runners, logs, chan,
                   err_log, sunk, completed>>

\* an iteration in submission order, whether the future is done or not
NextYieldSubmitted ==
    IF Jobs \ Yielded # {}
    THEN {CHOOSE i \in Jobs \ Yielded : \A j \in Jobs \ Yielded : i <= j}
    ELSE {}

\* the futures as_completed may yield next: any of those found done at the
\* start (a set), and after them the waiter's, oldest first
NextYield ==
    IF ac_finished \ Yielded # {} THEN ac_finished \ Yielded
    ELSE IF ac_waiter # <<>> THEN {Head(ac_waiter)}
    ELSE {}

\* a loop body that takes any future, done or not, and does not wait for it
CollectUnfinished(i) ==
    /\ cpc = "collect"
    /\ i \in Jobs \ Yielded
    /\ yielded' = Append(yielded, i)
    /\ ac_waiter' = SelectSeq(ac_waiter, LAMBDA j : j # i)
    /\ IF pc[i] = "DONE"
       THEN /\ queue_event(StatusEvent(i, FinalStatus(retcode[i][1])))
            /\ UNCHANGED <<cpc, cur>>
       ELSE /\ queue_event(CoordLine("[ERROR] raised exception"))
            /\ cur' = i
            /\ cpc' = "error_status"
    /\ UNCHANGED <<ui, args, call, ac_finished, runners, logs, err_log, sunk,
                   completed>>

\* the body of the for loop for one future: fut.result() and the status event,
\* or the log event of the except branch
Collect(i) ==
    /\ cpc = "collect"
    /\ i \in NextYield
    /\ yielded' = Append(yielded, i)
    /\ ac_waiter' = IF i \in ac_finished THEN ac_waiter ELSE Tail(ac_waiter)
    /\ IF pc[i] = "DONE"
       THEN /\ queue_event(StatusEvent(i, FinalStatus(retcode[i][1])))
            /\ UNCHANGED <<cpc, cur>>
       ELSE /\ queue_event(CoordLine("[ERROR] raised exception"))
            /\ cur' = i
            /\ cpc' = "error_status"
    /\ UNCHANGED <<ui, args, call, ac_finished, runners, logs, err_log, sunk,
                   completed>>

\* except branch, second event: the status "error" of that job
ErrorStatus ==
    /\ cpc = "error_status"
    /\ queue_event(StatusEvent(cur, "error"))
    /\ cpc' = "collect"
    /\ UNCHANGED <<ui, args, call, cur, ac_finished, ac_waiter, yielded, runners,
                   logs, err_log, sunk, completed>>

\* a coordinator that does not wait for every future
AllDoneEarly ==
    /\ cpc = "collect"
    /\ queue_event(CoordLine("All done"))
    /\ cpc' = "push_done"
    /\ UNCHANGED <<ui, args, call, cur, ac_finished, ac_waiter, yielded, runners,
                   logs, err_log, sunk, completed>>

\* every future was yielded: the with block ends and "All done" is logged
AllDone ==
    /\ cpc = "collect"
    /\ Yielded = Jobs
    /\ queue_event(CoordLine("All done"))
    /\ cpc' = "push_done"
    /\ UNCHANGED <<ui, args, call, cur, ac_finished, ac_waiter, yielded, runners,
                   logs, err_log, sunk, completed>>

PushDone ==
    /\ cpc = "push_done"
    /\ queue_event(DoneEvent)
    /\ cpc' = "returned"
    /\ UNCHANGED <<ui, args, call, cur, ac_finished, ac_waiter, yielded, runners,
                   logs, err_log, sunk, completed>>

(***************************************************************************)
(* The worker pool and the Worker Runner: run_yt_dlp_for_url.              *)
(***************************************************************************)
\* the jobs a worker thread is running
Active == {i \in Jobs : pc[i] \notin {"new", "pending", "DONE", "RAISED"}}

\* a pool that lets one thread too many run
PoolHasSlotOffByOne == Cardinality(Active) <= MAX_WORKERS

\* ThreadPoolExecutor(max_workers=MAX_WORKERS): a work item is taken from the
\* pool's queue only by one of at most MAX_WORKERS threads, each running one
\* item at a time
PoolHasSlot == Cardinality(Active) < MAX_WORKERS

\* the future of job i completes: as_completed's waiter, once installed, is
\* told in completion order
FutureDone(i) ==
    /\ completed' = Append(completed, i)
    /\ ac_waiter' = IF cpc \in {"collect", "error_status", "cli_collect"}
                    THEN Append(ac_waiter, i) ELSE ac_waiter

Line(i) == env.jobs[i].out[pos[i]]

\* a worker thread takes the oldest queued job and calls the runner, which
\* builds the command and spawns the process; Popen is outside the try, so an
\* exception of Popen leaves the runner and becomes the future's exception
Start(i) ==
    /\ pc[i] = "pending"
    /\ \A j \in 1..(i - 1) : pc[j] # "pending"
    /\ PoolHasSlot
    /\ IF env.jobs[i].fault = "spawn"
       THEN /\ pc' = [pc EXCEPT ![i] = "RAISED"]
            /\ FutureDone(i)
            /\ UNCHANGED proc
       ELSE /\ pc' = [pc EXCEPT ![i] = "START"]
            /\ proc' = [proc EXCEPT ![i] = "alive"]
            /\ UNCHANGED <<ac_waiter, completed>>
    /\ UNCHANGED <<ui, args, call, cpc, cur, ac_finished, yielded, pos, retcode,
                   logs, chan, err_log, sunk>>

\* an end marker that does not carry the code
MessageZeroCode(i) ==
    CASE pc[i] = "START" -> [kind |-> "START", line |-> urls[i], code |-> 0]
      [] pc[i] = "LINE"  -> [kind |-> "LINE", line |-> Line(i), code |-> 0]
      [] pc[i] = "END"   -> [kind |-> "END", line |-> <<>>, code |-> 0]

\* the message log_line is called with at START, LINE and END
Message(i) ==
    CASE pc[i] = "START" -> [kind |-> "START", line |-> urls[i], code |-> 0]
      [] pc[i] = "LINE"  -> [kind |-> "LINE", line |-> Line(i), code |-> 0]
      [] pc[i] = "END"   -> [kind |-> "END", line |-> <<>>, code |-> retcode[i][1]]

AfterLog(i) ==
    CASE pc[i] = "START" -> "READ"
      [] pc[i] = "LINE"  -> "QLOG"
      [] pc[i] = "END"   -> "RETURN"

\* a log_line that does not take the lock
LockIgnored == TRUE

\* with LOG_LOCK: the lock can be taken when nobody holds it
LockFree == LOG_LOCK = 0

\* log_line: the lock is taken, log_handle.write buffers the line and
\* log_handle.flush() starts: the first part of the line reaches LOG_FILE
LogAcquire(i) ==
    /\ pc[i] \in {"START", "LINE", "END"}
    /\ lphase[i] = 0
    /\ LockFree
    /\ LOG_LOCK' = i
    /\ lphase' = [lphase EXCEPT ![i] = 1]
    /\ log_torn' = (log_torn \/ log_tail \ {i} # {})
    /\ log_tail' = log_tail \cup {i}
    /\ UNCHANGED <<ui, args, call, coord, runners, logf, chan, err_log, sunk,
                   completed>>

\* the rest of the line and its newline reach LOG_FILE, and the with block
\* releases the lock
LogFlush(i) ==
    /\ pc[i] \in {"START", "LINE", "END"}
    /\ lphase[i] = 1
    /\ lphase' = [lphase EXCEPT ![i] = 0]
    /\ log_torn' = (log_torn \/ log_tail \ {i} # {})
    /\ log_tail' = log_tail \ {i}
    /\ logf' = [logf EXCEPT ![i] = Append(@, Message(i))]
    /\ LOG_LOCK' = 0
    /\ pc' = [pc EXCEPT ![i] = AfterLog(i)]
    /\ UNCHANGED <<ui, args, call, coord, pos, retcode, proc, chan, err_log, sunk,
                   completed>>

\* for line in proc.stdout: the next line, the end of the stream, or an
\* exception of the read
Read(i) ==
    /\ pc[i] = "READ"
    /\ IF pos[i] < Len(env.jobs[i].out)
       THEN /\ pos' = [pos EXCEPT ![i] = @ + 1]
            /\ pc' = [pc EXCEPT ![i] = "LINE"]
       ELSE /\ pc' = [pc EXCEPT ![i] =
                        IF env.jobs[i].fault = "read" THEN "EXCEPT" ELSE "WAIT"]
            /\ UNCHANGED pos
    /\ UNCHANGED <<ui, args, call, coord, retcode, proc, logs, chan, err_log, sunk,
                   completed>>

\* a runner that forwards the line and never its status
QLogOnly(i) ==
    /\ pc[i] = "QLOG"
    /\ queue_event(LogEvent(i, Line(i)))
    /\ pc' = [pc EXCEPT ![i] = "READ"]
    /\ UNCHANGED <<ui, args, call, coord, pos, retcode, proc, logs, err_log, sunk,
                   completed>>

\* queue_event(log), then infer_status
QLog(i) ==
    /\ pc[i] = "QLOG"
    /\ queue_event(LogEvent(i, Line(i)))
    /\ pc' = [pc EXCEPT ![i] =
                IF infer_status(Line(i)) # None THEN "QSTATUS" ELSE "READ"]
    /\ UNCHANGED <<ui, args, call, coord, pos, retcode, proc, logs, err_log, sunk,
                   completed>>

\* a runner that stops reading at a line classified as error or warning
QStatusStops(i) ==
    /\ pc[i] = "QSTATUS"
    /\ queue_event(StatusEvent(i, infer_status(Line(i))))
    /\ pc' = [pc EXCEPT ![i] =
                IF infer_status(Line(i)) \in {"error", "warning"}
                THEN "WAIT" ELSE "READ"]
    /\ UNCHANGED <<ui, args, call, coord, pos, retcode, proc, logs, err_log, sunk,
                   completed>>

\* if status: queue_event(status)
QStatus(i) ==
    /\ pc[i] = "QSTATUS"
    /\ queue_event(StatusEvent(i, infer_status(Line(i))))
    /\ pc' = [pc EXCEPT ![i] = "READ"]
    /\ UNCHANGED <<ui, args, call, coord, pos, retcode, proc, logs, err_log, sunk,
                   completed>>

\* proc.wait(): returns when the process has exited, or raises
Wait(i) ==
    /\ pc[i] = "WAIT"
    /\ IF env.jobs[i].fault = "wait"
       THEN /\ pc' = [pc EXCEPT ![i] = "EXCEPT"]
            /\ UNCHANGED <<proc, retcode>>
       ELSE /\ proc' = [proc EXCEPT ![i] = "exited"]
            /\ retcode' = [retcode EXCEPT ![i] = <<env.jobs[i].rc>>]
            /\ pc' = [pc EXCEPT ![i] = "END"]
    /\ UNCHANGED <<ui, args, call, coord, pos, logs, chan, err_log, sunk, completed>>

\* a handler that leaves the process running
ExceptNoKill(i, alive) ==
    /\ pc[i] = "EXCEPT"
    /\ err_log' = Append(err_log, urls[i])
    /\ proc' = [proc EXCEPT ![i] = IF alive THEN "alive" ELSE "exited"]
    /\ retcode' = [retcode EXCEPT ![i] = <<-1>>]
    /\ pc' = [pc EXCEPT ![i] = "RETURN"]
    /\ UNCHANGED <<ui, args, call, coord, pos, logs, chan, sunk, completed>>

\* except Exception: the line in the error log, proc.kill() when proc.poll()
\* is None, retcode = -1.  Whether the process has exited by then is the
\* environment's choice.
Except(i, alive) ==
    /\ pc[i] = "EXCEPT"
    /\ err_log' = Append(err_log, urls[i])
    /\ proc' = [proc EXCEPT ![i] = IF alive THEN "killed" ELSE "exited"]
    /\ retcode' = [retcode EXCEPT ![i] = <<-1>>]
    /\ pc' = [pc EXCEPT ![i] = "RETURN"]
    /\ UNCHANGED <<ui, args, call, coord, pos, logs, chan, sunk, completed>>

\* return (url, retcode): the future gets its result
Return(i) ==
    /\ pc[i] = "RETURN"
    /\ pc' = [pc EXCEPT ![i] = "DONE"]
    /\ FutureDone(i)
    /\ UNCHANGED <<ui, args, call, cpc, cur, ac_finished, yielded, pos, retcode,
                   proc, logs, chan, err_log, sunk>>

(***************************************************************************)
(* The Event Sink: one turn of the loop of process_queue.                  *)
(***************************************************************************)
\* a sink that counts the rows from 0
SetStatusFromZero(tree, index, status) ==
    IF index - 1 \in DOMAIN tree
    THEN [tree EXCEPT ![index - 1] = [status |-> status, url |-> @.url]]
    ELSE tree

\* a sink that makes a row for an index it does not know
SetStatusInsert(tree, index, status) ==
    IF index \in DOMAIN tree
    THEN [tree EXCEPT ![index] = [status |-> status, url |-> @.url]]
    ELSE Append(tree, [status |-> status, url |-> <<>>])

\* if self.status_tree.exists(index):
\*     self.status_tree.item(index, values=(status, current[1]))
SetStatus(tree, index, status) ==
    IF index \in DOMAIN tree
    THEN [tree EXCEPT ![index] = [status |-> status, url |-> @.url]]
    ELSE tree

process_queue ==
    /\ event_queue # <<>>
    /\ LET event == Head(event_queue)
       IN  /\ event_queue' = get_nowait(event_queue)
           /\ sunk' = [sunk EXCEPT ![JobOf(event)] = Append(@, event)]
           /\ status_tree' = IF event.type = "status"
                             THEN SetStatus(status_tree, event.index, event.status)
                             ELSE status_tree
           /\ start_button' = IF event.type = "done" THEN "normal"
                              ELSE start_button
    /\ UNCHANGED <<dialog, batch, args, call, coord, runners, logs, pushed, err_log,
                   completed>>

(***************************************************************************)
(* CLI mode: cli_main.  The process ends in cpc = "exit_0" or "exit_1".    *)
(***************************************************************************)
\* ensure_dirs(): an exception here is caught by nothing, the interpreter
\* prints the traceback and exits with status 1
CliEnsureDirs ==
    /\ cpc = "cli_ensure_dirs"
    /\ cpc' = IF env.prov = "dirs" THEN "exit_1" ELSE "cli_ensure_yt_dlp"
    /\ UNCHANGED <<ui, args, call, cur, ac_finished, ac_waiter, yielded, runners,
                   logs, chan, err_log, sunk, completed>>

\* try: ensure_yt_dlp() except: print, sys.exit(1)
CliEnsureYtDlp ==
    /\ cpc = "cli_ensure_yt_dlp"
    /\ cpc' = IF env.prov = "yt_dlp" THEN "exit_1" ELSE "cli_ensure_ffmpeg"
    /\ UNCHANGED <<ui, args, call, cur, ac_finished, ac_waiter, yielded, runners,
                   logs, chan, err_log, sunk, completed>>

\* try: ensure_ffmpeg() except: two lines are printed, and cli_main goes on
CliEnsureFfmpeg ==
    /\ cpc = "cli_ensure_ffmpeg"
    /\ cpc' = "cli_read_urls"
    /\ UNCHANGED <<ui, args, call, cur, ac_finished, ac_waiter, yielded, runners,
                   logs, chan, err_log, sunk, completed>>

\* urls = read_urls_from_file(): sys.exit(1) when URLS_FILE does not exist or
\* holds no URL line; env.file is <<>> or <<the text of URLS_FILE>>
CliReadUrls ==
    /\ cpc = "cli_read_urls"
    /\ IF env.file = <<>> \/ read_urls_from_file(env.file[1]) = <<>>
       THEN /\ cpc' = "exit_1"
            /\ UNCHANGED <<urls, runners, lphase, logf, sunk, pushed>>
       ELSE LET us == read_urls_from_file(env.file[1])
            IN  /\ urls' = us
                /\ cpc' = "cli_submit"
                /\ pc' = [i \in 1..Len(us) |-> "new"]
                /\ pos' = [i \in 1..Len(us) |-> 0]
                /\ retcode' = [i \in 1..Len(us) |-> <<>>]
                /\ proc' = [i \in 1..Len(us) |-> "none"]
                /\ lphase' = [i \in 1..Len(us) |-> 0]
                /\ logf' = [i \in 1..Len(us) |-> <<>>]
                /\ pushed' = [k \in 0..Len(us) |-> <<>>]
                /\ sunk' = [k \in 0..Len(us) |-> <<>>]
    /\ UNCHANGED <<ui, env, mode, call, cur, ac_finished, ac_waiter, yielded,
                   LOG_LOCK, log_tail, log_torn, event_queue, err_log, completed>>

\* exe.submit(...) for the next URL; then as_completed is called
CliSubmit ==
    /\ cpc = "cli_submit"
    /\ IF \E i \in Jobs : pc[i] = "new"
       THEN LET i == CHOOSE k \in Jobs :
                        pc[k] = "new" /\ \A j \in 1..(k - 1) : pc[j] # "new"
            IN  /\ pc' = [pc EXCEPT ![i] = "pending"]
                /\ UNCHANGED <<cpc, ac_finished>>
       ELSE /\ cpc' = "cli_collect"
            /\ ac_finished' = {i \in Jobs : IsDone(i)}
            /\ UNCHANGED pc
    /\ UNCHANGED <<ui, args, call, cur, ac_waiter, yielded, pos, retcode, proc,
                   logs, chan, err_log, sunk, completed>>

\* a loop that gives up at the first future that raised
CliCollectFatal(i) ==
    /\ cpc = "cli_collect"
    /\ i \in NextYield
    /\ yielded' = Append(yielded, i)
    /\ ac_waiter' = IF i \in ac_finished THEN ac_waiter ELSE Tail(ac_waiter)
    /\ err_log' = IF pc[i] = "DONE" THEN err_log ELSE Append(err_log, urls[i])
    /\ cpc' = IF pc[i] = "DONE" THEN cpc ELSE "exit_1"
    /\ UNCHANGED <<ui, args, call, cur, ac_finished, runners, logs, chan, sunk,
                   completed>>

\* the body of the for loop for one future: the summary line of a result, or
\* the line in the error log for a future that raised
CliCollect(i) ==
    /\ cpc = "cli_collect"
    /\ i \in NextYield
    /\ yielded' = Append(yielded, i)
    /\ ac_waiter' = IF i \in ac_finished THEN ac_waiter ELSE Tail(ac_waiter)
    /\ err_log' = IF pc[i] = "DONE" THEN err_log ELSE Append(err_log, urls[i])
    /\ UNCHANGED <<ui, args, call, cpc, cur, ac_finished, runners, logs, chan,
                   sunk, completed>>

\* every future was yielded: the last lines are printed, cli_main returns and
\* the process exits with status 0
CliReturn ==
    /\ cpc = "cli_collect"
    /\ Yielded = Jobs
    /\ cpc' = "exit_0"
    /\ UNCHANGED <<ui, args, call, cur, ac_finished, ac_waiter, yielded, runners,
                   logs, chan, err_log, sunk, completed>>

(***************************************************************************)
(* The inputs of a batch: what the form holds, what each process prints    *)
(* and returns, and which calls fail.                                      *)
(***************************************************************************)
LineDl == <<"[download]", "%">>

LineErr == <<"ERROR">>

LineWarn == <<"WARNING">>

LinePlain == <<"hello">>

Lines == {LineDl, LineErr, LineWarn, LinePlain}

Outs(m) == UNION {[1..k -> Lines] : k \in 0..m}

Profile(o, r, f) == [out |-> o, rc |-> r, fault |-> f]

\* every output of up to MaxLines lines with either exit code; every failure
\* of a call of the runner
Profiles ==
    {Profile(o, r, "none") : o \in Outs(MaxLines), r \in {0, 1}}
    \cup {Profile(<<>>, 0, "spawn")}
    \cup {Profile(o, 0, f) : o \in Outs(1), f \in {"read", "wait"}}

\* an output of m lines: an error line, a progress line, a plain line, ...
Pattern(m) ==
    [k \in 1..m |-> IF k % 3 = 1 THEN LineErr
                    ELSE IF k % 3 = 2 THEN LineDl ELSE LinePlain]

\* the jobs of a batch of several jobs
LightProfiles ==
    {Profile(Pattern(MaxLines), 0, "none"), Profile(<<>>, 1, "none"),
     Profile(<<>>, 0, "spawn"), Profile(Pattern(1), 0, "read")}

Provs == {"none", "dirs", "yt_dlp", "ffmpeg", "mkdir"}

Envs(n) ==
    {[jobs |-> js, prov |-> "none"] :
        js \in IF n = 1 THEN [1..n -> Profiles] ELSE [1..n -> LightProfiles]}
    \cup {[jobs |-> [k \in 1..n |-> Profile(<<LineDl>>, 0, "none")], prov |-> p] :
            p \in Provs \ {"none"}}

UrlLine(k) == IF k % 2 = 1 THEN <<" ", "a">> ELSE <<"b", " ">>

RECURSIVE JoinLines(_)
JoinLines(ls) ==
    IF ls = <<>> THEN <<>> ELSE Head(ls) \o <<"\n">> \o JoinLines(Tail(ls))

\* a comment, a blank line and n URL lines
TextOf(n) ==
    JoinLines(<< <<"#", "a">>, <<" ">> >> \o [k \in 1..n |-> UrlLine(k)])

NoEnv == [jobs |-> <<>>, prov |-> "none"]

\* a start action the form rejects
Rejected ==
    \/ start_downloads(TextOf(0), "mp3", "single", NoEnv)
    \/ start_downloads(TextOf(1), "ogg", "single", NoEnv)
    \/ start_downloads(TextOf(1), "mp3", "album", NoEnv)

\* a batch of up to MaxJobs jobs, MaxBatches times
StartSmall ==
    /\ batch < MaxBatches
    /\ \E n \in 1..MaxJobs : \E e \in Envs(n) :
          start_downloads(TextOf(n), "mp3", "single", e)

\* a batch with more jobs than the pool has threads; no process prints
PoolJobs == MAX_WORKERS + PoolExtra

StartPool ==
    /\ batch < MaxBatches
    /\ start_downloads(TextOf(PoolJobs), "mp3", "playlist",
                       [jobs |-> [k \in 1..PoolJobs |-> Profile(<<>>, 0, "none")],
                        prov |-> "none"])

Coordinator ==
    \/ EnsureDirs
    \/ EnsureYtDlp
    \/ YtDlpFailedDone
    \/ EnsureFfmpeg
    \/ FfmpegWarning
    \/ Mkdir
    \/ Submit
    \/ AsCompleted
    \/ \E i \in Jobs : Collect(i)
    \/ ErrorStatus
    \/ AllDone
    \/ PushDone

Runner(i) ==
    \/ Start(i)
    \/ LogAcquire(i)
    \/ LogFlush(i)
    \/ Read(i)
    \/ QLog(i)
    \/ QStatus(i)
    \/ Wait(i)
    \/ \E alive \in BOOLEAN : Except(i, alive)
    \/ Return(i)

Run ==
    \/ Coordinator
    \/ \E i \in Jobs : Runner(i)
    \/ process_queue

Next ==
    \/ Rejected
    \/ StartSmall
    \/ Run

Spec == Init /\ [][Next]_vars

\* root.after(200, self.process_queue): the sink's timer always comes back
FairSpec == Spec /\ WF_vars(process_queue)

NextPool ==
    \/ Rejected
    \/ StartPool
    \/ (batch < MaxBatches
          /\ \E e \in Envs(1) : start_downloads(TextOf(1), "mp3", "single", e))
    \/ Run

SpecPool == Init /\ [][NextPool]_vars

(***************************************************************************)
(* CLI mode: the inputs of a process and its specification.                *)
(***************************************************************************)
CliProvs == {"none", "dirs", "yt_dlp", "ffmpeg"}

\* URLS_FILE: missing, empty, holding no URL line, or holding n URL lines
CliFiles(n) == IF n = 0 THEN {<<>>, << <<>> >>, <<TextOf(0)>>} ELSE {<<TextOf(n)>>}

CliEnvs ==
    {[jobs |-> <<>>, prov |-> p, file |-> f] : p \in CliProvs, f \in CliFiles(0)}
    \cup UNION {
          {[jobs |-> js, prov |-> p, file |-> f] :
              js \in IF n = 1 THEN [1..n -> Profiles] ELSE [1..n -> LightProfiles],
              p \in CliProvs, f \in CliFiles(n)} : n \in 1..MaxJobs}

\* the state in which cli_main is entered
InitCli ==
    /\ start_button = "normal"
    /\ status_tree = <<>>
    /\ dialog = "none"
    /\ batch = 0
    /\ event_queue = <<>>
    /\ urls = <<>>
    /\ env \in CliEnvs
    /\ mode = "cli"
    /\ cpc = "cli_ensure_dirs"
    /\ cur = 0
    /\ ac_finished = {}
    /\ ac_waiter = <<>>
    /\ yielded = <<>>
    /\ pc = <<>>
    /\ pos = <<>>
    /\ retcode = <<>>
    /\ proc = <<>>
    /\ lphase = <<>>
    /\ LOG_LOCK = 0
    /\ logf = <<>>
    /\ log_tail = {}
    /\ log_torn = FALSE
    /\ err_log = <<>>
    /\ pushed = <<>>
    /\ sunk = <<>>
    /\ completed = <<>>
    /\ call_args = <<>>
    /\ call_result = <<>>

CliCoordinator ==
    \/ CliEnsureDirs
    \/ CliEnsureYtDlp
    \/ CliEnsureFfmpeg
    \/ CliReadUrls
    \/ CliSubmit
    \/ \E i \in Jobs : CliCollect(i)
    \/ CliReturn

NextCli ==
    \/ CliCoordinator
    \/ \E i \in Jobs : Runner(i)

SpecCli == InitCli /\ [][NextCli]_vars

\* either mode: main() calls cli_main() with "--cli" and starts the form
\* without it
NextModes ==
    \/ Next
    \/ CliCoordinator

SpecModes == (Init \/ InitCli) /\ [][NextModes]_vars

(***************************************************************************)
(* The Event Sink on its own: process_queue handles whatever the queue     *)
(* holds, events about rows the table does not have included.              *)
(***************************************************************************)
MaxQueue == 2

SinkUrls == {<<"a">>, <<"b">>}

SinkRows == [status : {"queued", "downloading", "done"}, url : SinkUrls]

SinkTrees == UNION {[1..n -> SinkRows] : n \in 0..MaxJobs}

SinkEvents ==
    {StatusEvent(k, st) : k \in 0..(MaxJobs + 1), st \in {"error", "done"}}
    \cup {LogEvent(1, LinePlain), DoneEvent}

SinkQueues == UNION {[1..n -> SinkEvents] : n \in 1..MaxQueue}

EventsAbout(k, q) == SelectSeq(q, LAMBDA e : JobOf(e) = k)

InitSink ==
    /\ start_button = "disabled"
    /\ status_tree \in SinkTrees
    /\ dialog = "none"
    /\ batch = 1
    /\ event_queue \in SinkQueues
    /\ urls = [i \in DOMAIN status_tree |-> status_tree[i].url]
    /\ env = [jobs |-> <<>>, prov |-> "none"]
    /\ mode = "gui"
    /\ cpc = "returned"
    /\ cur = 0
    /\ ac_finished = {}
    /\ ac_waiter = <<>>
    /\ yielded = <<>>
    /\ pc = [i \in DOMAIN status_tree |-> "DONE"]
    /\ pos = [i \in DOMAIN status_tree |-> 0]
    /\ retcode = [i \in DOMAIN status_tree |-> <<0>>]
    /\ proc = [i \in DOMAIN status_tree |-> "exited"]
    /\ lphase = [i \in DOMAIN status_tree |-> 0]
    /\ LOG_LOCK = 0
    /\ logf = [i \in DOMAIN status_tree |-> <<>>]
    /\ log_tail = {}
    /\ log_torn = FALSE
    /\ err_log = <<>>
    /\ pushed = [k \in 0..(MaxJobs + 1) |-> EventsAbout(k, event_queue)]
    /\ sunk = [k \in 0..(MaxJobs + 1) |-> <<>>]
    /\ completed = <<>>
    /\ call_args = <<>>
    /\ call_result = <<>>

NextSink == process_queue

SpecSink == InitSink /\ [][NextSink]_vars

(***************************************************************************)
(* The pure functions on their own: a call with arguments drawn from       *)
(* bounded sets, and its return.                                           *)
(***************************************************************************)
MaxWords == 2

\* the fragments of a line: the keywords of the classifier as the tools print
\* them, in lower, upper and mixed case, and a fragment without a keyword
ClassifyWords ==
    {"Extracting audio", "post-process", "FFmpeg", "Adding Metadata",
     "Embedding", "embedding", "Deleting original", "WARNING", "warning",
     "ERROR", "Error", "error", "[download]", "%", "Destination", "hello"}

ClassifyLines == UNION {[1..n -> ClassifyWords] : n \in 0..MaxWords}

ClassifyCalls == {[fn |-> "infer_status", line |-> l] : l \in ClassifyLines}

\* URLs as they come out of the URL source: no validation is done on them
CommandUrls == {"https://youtu.be/a", "b", "-x"}

CommandDirs == {"downloads", "D:/music"}

CommandCalls ==
    {[fn |-> "build_command", url |-> u, output_dir |-> d, audio_format |-> a,
      playlist_mode |-> m] :
        u \in CommandUrls, d \in CommandDirs, a \in AUDIO_FORMATS,
        m \in PLAYLIST_MODES \cup {"album"}}

MaxText == 6

TextChars == {"a", "b", " ", "#", "\n"}

\* every URL source of up to MaxText characters
Texts == UNION {[1..n -> TextChars] : n \in 0..MaxText}

ParseCalls ==
    {[fn |-> f, text |-> t] :
        f \in {"read_urls_from_text", "read_urls_from_file"}, t \in Texts}

Calls == ClassifyCalls \cup CommandCalls \cup ParseCalls

\* infer_status(line) is called and returns
CallInferStatus ==
    /\ call_args # <<>>
    /\ call_args.fn = "infer_status"
    /\ call_result = <<>>
    /\ call_result' = <<infer_status(call_args.line)>>
    /\ UNCHANGED <<ui, args, call_args, coord, runners, logs, chan, err_log,
                   sunk, completed>>

\* build_command(url, output_dir, audio_format, playlist_mode) is called and
\* returns
CallBuildCommand ==
    /\ call_args # <<>>
    /\ call_args.fn = "build_command"
    /\ call_result = <<>>
    /\ call_result' = <<build_command(call_args.url, call_args.output_dir,
                                      call_args.audio_format,
                                      call_args.playlist_mode)>>
    /\ UNCHANGED <<ui, args, call_args, coord, runners, logs, chan, err_log,
                   sunk, completed>>

\* read_urls_from_text(text) is called and returns
CallReadUrlsFromText ==
    /\ call_args # <<>>
    /\ call_args.fn = "read_urls_from_text"
    /\ call_result = <<>>
    /\ call_result' = <<read_urls_from_text(call_args.text)>>
    /\ UNCHANGED <<ui, args, call_args, coord, runners, logs, chan, err_log,
                   sunk, completed>>

\* the loop of read_urls_from_file() over a URLS_FILE that holds text
CallReadUrlsFromFile ==
    /\ call_args # <<>>
    /\ call_args.fn = "read_urls_from_file"
    /\ call_result = <<>>
    /\ call_result' = <<read_urls_from_file(call_args.text)>>
    /\ UNCHANGED <<ui, args, call_args, coord, runners, logs, chan, err_log,
                   sunk, completed>>

\* nothing but the function called is running
InitCalls ==
    /\ start_button = "normal"
    /\ status_tree = <<>>
    /\ dialog = "none"
    /\ batch = 0
    /\ event_queue = <<>>
    /\ urls = <<>>
    /\ env = [jobs |-> <<>>, prov |-> "none"]
    /\ mode = "gui"
    /\ cpc = "idle"
    /\ cur = 0
    /\ ac_finished = {}
    /\ ac_waiter = <<>>
    /\ yielded = <<>>
    /\ pc = <<>>
    /\ pos = <<>>
    /\ retcode = <<>>
    /\ proc = <<>>
    /\ lphase = <<>>
    /\ LOG_LOCK = 0
    /\ logf = <<>>
    /\ log_tail = {}
    /\ log_torn = FALSE
    /\ err_log = <<>>
    /\ pushed = <<>>
    /\ sunk = <<>>
    /\ completed = <<>>
    /\ call_args \in Calls
    /\ call_result = <<>>

NextCalls ==
    \/ CallInferStatus
    \/ CallBuildCommand
    \/ CallReadUrlsFromText
    \/ CallReadUrlsFromFile

SpecCalls == InitCalls /\ [][NextCalls]_vars

(***************************************************************************)
(* Batch after batch: the form is used again once the start control is     *)
(* enabled again.                                                          *)
(***************************************************************************)
\* the environments of a repeated batch: one or two jobs, a failing spawn, a
\* failing provisioning
RepeatEnvs(n) ==
    IF n = 1
    THEN {[jobs |-> <<p>>, prov |-> "none"] :
             p \in {Profile(<<LineErr>>, 0, "none"), Profile(<<>>, 1, "none"),
                    Profile(<<>>, 0, "spawn"), Profile(Pattern(1), 0, "read")}}
         \cup {[jobs |-> <<Profile(<<LineDl>>, 0, "none")>>, prov |-> p] :
                 p \in Provs \ {"none"}}
    ELSE {[jobs |-> [k \in 1..n |-> IF k = 1 THEN Profile(<<LineDl>>, 0, "none")
                                    ELSE Profile(<<>>, 1, "none")],
           prov |-> "none"]}

StartRepeat ==
    /\ batch < MaxBatches + 1
    /\ \E n \in 1..MaxJobs : \E e \in RepeatEnvs(n) :
          start_downloads(TextOf(n), "mp3", "single", e)

NextBatches ==
    \/ Rejected
    \/ StartRepeat
    \/ Run

SpecBatches == Init /\ [][NextBatches]_vars

(***************************************************************************)
(* Properties.                                                             *)
(***************************************************************************)
Started(i) == pc[i] \notin {"new", "pending"}

Live == {i \in Jobs : proc[i] = "alive"}

CoordEnded == cpc \in {"returned", "died"}

Count(e, q) == Cardinality({k \in 1..Len(q) : q[k] = e})

IsPrefix(a, b) == Len(a) <= Len(b) /\ a = SubSeq(b, 1, Len(a))

Terminal == {"done", "error"} \cup {FailedStatus(c) : c \in {1, 2, -1}}

\* C1: at most MAX_WORKERS runners are active at once, a live process belongs
\* to an active runner (which has one process at most), and job i, beyond the
\* bound, has started only if at least i - MAX_WORKERS earlier runners have
\* returned.
C1_ConcurrencyBound ==
    /\ Cardinality(Active) <= MAX_WORKERS
    /\ Live \subseteq Active
    /\ \A i \in Jobs :
          Started(i) =>
             Cardinality({j \in 1..(i - 1) : IsDone(j)}) >= i - MAX_WORKERS

\* the pool is full, and a job beyond the bound runs among the active ones
C1_Witness ==
    /\ Cardinality(Active) = MAX_WORKERS
    /\ \E i \in Active : i > MAX_WORKERS /\ proc[i] = "alive"

\* C2: when the coordinator thread has ended and the channel is drained, every
\* job of the batch shows a terminal status: none is left queued or in a
\* transient status.
C2_AllJobsTerminal ==
    (CoordEnded /\ event_queue = <<>>) =>
        \A i \in Jobs : status_tree[i].status \in Terminal

\* C3: when the coordinator thread of a batch has ended, it has pushed exactly
\* one done event, and once the channel is drained the start control is
\* enabled again.
C3_AlwaysDone ==
    CoordEnded =>
        /\ Count(DoneEvent, pushed[0]) = 1
        /\ event_queue = <<>> => start_button = "normal"

\* C4: a runner whose spawn raised has returned the sentinel code -1.
C4_SpawnSentinel ==
    \A i \in Jobs :
        (env.jobs[i].fault = "spawn" /\ IsDone(i)) =>
            pc[i] = "DONE" /\ retcode[i] = <<-1>>

\* the events of one output line of job i
EventsOfLine(i, l) ==
    IF infer_status(l) # None
    THEN <<LogEvent(i, l), StatusEvent(i, infer_status(l))>>
    ELSE <<LogEvent(i, l)>>

RECURSIVE EventsOfLines(_, _)
EventsOfLines(i, ls) ==
    IF ls = <<>> THEN <<>>
    ELSE EventsOfLine(i, Head(ls)) \o EventsOfLines(i, Tail(ls))

\* the events of everything the process of job i prints, in that order
Produced(i) == EventsOfLines(i, env.jobs[i].out)

\* the final status of a job whose future is done
Outcome(i) ==
    IF pc[i] = "RAISED" THEN "error"
    ELSE IF retcode[i] = <<0>> THEN "done"
    ELSE FailedStatus(retcode[i][1])

\* the coordinator is through with the result of job i
Reported(i) == i \in Yielded /\ ~(cpc = "error_status" /\ cur = i)

Position(i, q) == CHOOSE k \in 1..Len(q) : q[k] = i

\* the final status events pushed about job i
Finals(i) ==
    {k \in 1..Len(pushed[i]) : k > Len(Produced(i)) /\ pushed[i][k].type = "status"}

C5_EachJobOnce ==
    /\ \A i \in Jobs :
          /\ Reported(i) => /\ IsDone(i)
                            /\ Cardinality(Finals(i)) = 1
                            /\ pushed[i][Len(pushed[i])] = StatusEvent(i, Outcome(i))
          /\ ~Reported(i) => Finals(i) = {}
    /\ (cpc \in {"push_done", "returned"} /\ env.prov # "yt_dlp") =>
          \A i \in Jobs : Reported(i)

\* C5 as claimed: one final status event per submitted job, carrying its index
\* and its outcome (done iff the code is 0, failed with the code, error when
\* the retrieval raised), none left out after a raising retrieval, and the
\* jobs reported in the order in which their runners completed.
C5_CompletionOrder ==
    /\ C5_EachJobOnce
    /\ \A a, b \in 1..Len(yielded) :
          a < b => Position(yielded[a], completed) < Position(yielded[b], completed)

\* C5, amended: as claimed, but the jobs that had completed when the
\* coordinator began to collect are reported first, in any order; the others
\* follow in completion order.
C5_CollectionOrder ==
    /\ C5_EachJobOnce
    /\ \A a, b \in 1..Len(yielded) :
          a < b =>
             \/ Position(yielded[a], completed) < Position(yielded[b], completed)
             \/ {yielded[a], yielded[b]} \subseteq ac_finished

\* two jobs were reported against the order of their completion, one of them
\* after a retrieval that raised, and the batch is done
C5_Witness ==
    /\ cpc = "returned"
    /\ Len(yielded) = 2
    /\ Position(yielded[1], completed) > Position(yielded[2], completed)
    /\ \E i \in Jobs : Outcome(i) = "error"
    /\ \E i \in Jobs : Outcome(i) = "failed (1)"

\* the sink has handled the coordinator's final status event of job i
FinalHandled(i) == Reported(i) /\ sunk[i] = pushed[i]

StartsQueued ==
    batch' # batch =>
        \A i \in DOMAIN status_tree' : status_tree'[i].status = "queued"

\* C6 as claimed: a batch starts with every job queued, and within a batch a
\* visible status done, failed or error never changes again.
C6_TerminalStable ==
    [][/\ StartsQueued
       /\ batch' = batch =>
            \A i \in Jobs :
                status_tree[i].status \in Terminal =>
                    status_tree'[i].status = status_tree[i].status]_vars

\* C6, amended: a batch starts with every job queued; within a batch a visible
\* status done or failed never changes again, and neither does the status of
\* a job once the sink has handled the coordinator's final status event of
\* that job.  (The status error that a line classified as error sets is
\* transient.)
C6_FinalStable ==
    [][/\ StartsQueued
       /\ batch' = batch =>
            \A i \in Jobs :
                (status_tree[i].status \in Terminal \ {"error"} \/ FinalHandled(i)) =>
                    status_tree'[i].status = status_tree[i].status]_vars

\* the final status of one job is on display, one of them an error of the
\* coordinator, while the sink still has events of the batch to handle
C6_Witness ==
    /\ event_queue # <<>>
    /\ \E i \in Jobs : FinalHandled(i) /\ status_tree[i].status = "error"
    /\ \E i \in Jobs : ~FinalHandled(i) /\ status_tree[i].status = "error"

\* C7: at most one runner is inside the write-and-flush of log_line, and no
\* line of the shared log has part of another line inside it.
C7_LogExclusive ==
    /\ Cardinality({i \in Jobs : lphase[i] = 1}) <= 1
    /\ Cardinality(log_tail) <= 1
    /\ ~log_torn

\* one runner is writing an output line while another is at the lock with its
\* end marker
C7_Witness ==
    \E i, j \in Jobs :
        /\ pc[i] = "LINE" /\ lphase[i] = 1
        /\ pc[j] = "END" /\ lphase[j] = 0

\* the events about job i that its runner pushed
FromRunner(i) ==
    IF Reported(i) /\ pushed[i] # <<>>
    THEN SubSeq(pushed[i], 1, Len(pushed[i]) - 1)
    ELSE pushed[i]

\* C8: for every job, the events its runner has pushed are, in order, the
\* events of the first lines its process printed, and the sink has handled
\* the events about the job in the order in which they were pushed.
C8_JobOrder ==
    \A i \in Jobs :
        /\ IsPrefix(FromRunner(i), Produced(i))
        /\ IsPrefix(sunk[i], pushed[i])

\* the sink has handled several events of one job and some of another, and
\* events about both are waiting
C8_Witness ==
    \E i, j \in Jobs :
        /\ i # j
        /\ Len(sunk[i]) >= 3
        /\ Len(sunk[j]) >= 1
        /\ \E a, b \in 1..Len(event_queue) :
              a < b /\ JobOf(event_queue[a]) = j /\ JobOf(event_queue[b]) = i

Waiting(k) == Cardinality({n \in 1..Len(event_queue) : JobOf(event_queue[n]) = k})

Conserved ==
    \A k \in DOMAIN pushed :
        /\ Len(pushed[k]) = Len(sunk[k]) + Waiting(k)
        /\ \A n \in 1..Len(pushed[k]) :
              Count(pushed[k][n], pushed[k])
                 = Count(pushed[k][n], sunk[k]) + Count(pushed[k][n], event_queue)

\* C9: every event pushed has been handled once or waits once in the channel,
\* no event is handled that was not pushed, and a channel that holds events
\* is eventually drained.
C9_NoLossNoDup ==
    /\ []Conserved
    /\ (event_queue # <<>>) ~> (event_queue = <<>>)

\* runners and the coordinator have pushed while the sink was draining
C9_Witness ==
    /\ Len(event_queue) >= 3
    /\ \E i, j \in Jobs : i # j /\ Waiting(i) >= 1 /\ Waiting(j) >= 1
    /\ Waiting(0) >= 1
    /\ \E i \in Jobs : Len(sunk[i]) >= 1

\* C10: a runner whose read or wait raised does not raise: when it returns,
\* its code is -1, the error log has a line for its URL and its process is
\* not running.
C10_RunnerCatches ==
    \A i \in Jobs :
        env.jobs[i].fault \in {"read", "wait"} =>
            /\ pc[i] # "RAISED"
            /\ pc[i] \in {"RETURN", "DONE"} =>
                  /\ retcode[i] = <<-1>>
                  /\ Count(urls[i], err_log) >= 1
                  /\ proc[i] \in {"exited", "killed"}

\* a runner whose read raised after a line has returned, its process killed
C10_Witness ==
    \E i \in Jobs :
        /\ env.jobs[i].fault = "read"
        /\ pos[i] >= 1
        /\ pc[i] = "DONE"
        /\ proc[i] = "killed"

\* URLS_FILE is missing or holds no URL line
NoUrlSource == env.file = <<>> \/ read_urls_from_file(env.file[1]) = <<>>

NoJobRun == \A i \in Jobs : pc[i] = "new"

AllJobsRun == \A i \in Jobs : IsDone(i)

C12_ExitOnSourceOnly ==
    mode = "cli" =>
        /\ cpc = "exit_1" => NoUrlSource
        /\ NoUrlSource => cpc # "exit_0"
        /\ cpc = "exit_0" => AllJobsRun

NoStart == env.prov \in {"dirs", "yt_dlp"} \/ NoUrlSource

\* C12, amended: the CLI process exits with status 1, and
\* without running any job, exactly when the directories cannot be prepared,
\* provisioning of the download tool fails, or the URL source is missing or
\* has no URL line; in every other case with status 0 after every job was run
\* and collected, whatever the exit codes or exceptions of individual jobs.
C12_ExitStatus ==
    mode = "cli" =>
        /\ cpc = "exit_1" => (NoStart /\ NoJobRun)
        /\ NoStart => cpc \notin {"cli_submit", "cli_collect", "exit_0"}
        /\ cpc = "exit_0" => (urls # <<>> /\ AllJobsRun /\ Yielded = Jobs)

\* the process has exited with status 0 although one job raised and another
\* ended with a non-zero code
C12_Witness ==
    /\ mode = "cli"
    /\ cpc = "exit_0"
    /\ \E i \in Jobs : pc[i] = "RAISED"
    /\ \E i \in Jobs : pc[i] = "DONE" /\ retcode[i] = <<1>>

\* C13: a step in which the sink handles a status event leaves the table with
\* the same rows; the row with the event's index gets the event's status and
\* keeps its URL, every other row keeps both; with no row of that index, no
\* row changes.
C13_StatusFrame ==
    [][(/\ event_queue # <<>>
        /\ Head(event_queue).type = "status"
        /\ event_queue' = get_nowait(event_queue)) =>
          /\ DOMAIN status_tree' = DOMAIN status_tree
          /\ \A i \in DOMAIN status_tree :
                /\ status_tree'[i].url = status_tree[i].url
                /\ status_tree'[i].status =
                      IF i = Head(event_queue).index
                      THEN Head(event_queue).status
                      ELSE status_tree[i].status]_vars

\* the sink has handled a status event about a row the table does not have
\* and one that set the status of a row of a table of several rows
C13_Witness ==
    /\ Len(status_tree) = MaxJobs
    /\ sunk[MaxJobs + 1] # <<>>
    /\ \E i \in DOMAIN status_tree :
          /\ sunk[i] # <<>>
          /\ status_tree[i].status = sunk[i][1].status
          /\ \E j \in DOMAIN status_tree : status_tree[j].status = "downloading"

\* the runner of job i has left its reading loop
PastReading(i) == pc[i] \in {"WAIT", "EXCEPT", "END", "RETURN", "DONE"}

Alarming(l) == infer_status(l) \in {"error", "warning"}

HasAlarm(i) == \E k \in 1..Len(env.jobs[i].out) : Alarming(env.jobs[i].out[k])

\* C14: a runner leaves its reading loop only when it has read and forwarded
\* every line its process printed, lines classified as error or warning and
\* the lines after them included; and once the sink has handled the final
\* status of a job whose process exited, the visible status is done when the
\* exit code is 0 and failed with the code otherwise, whatever was printed.
C14_ExitCodeDecides ==
    \A i \in Jobs :
        /\ PastReading(i) =>
              /\ pos[i] = Len(env.jobs[i].out)
              /\ FromRunner(i) = Produced(i)
        /\ (FinalHandled(i) /\ env.jobs[i].fault = "none") =>
              status_tree[i].status =
                 IF env.jobs[i].rc = 0 THEN "done" ELSE FailedStatus(env.jobs[i].rc)

\* a job that printed an error line and more after it has ended as done, and
\* a job that printed nothing alarming has ended as failed
C14_Witness ==
    \E i, j \in Jobs :
        /\ FinalHandled(i) /\ FinalHandled(j)
        /\ Len(env.jobs[i].out) >= 2 /\ Alarming(env.jobs[i].out[1])
        /\ env.jobs[i].rc = 0 /\ status_tree[i].status = "done"
        /\ ~HasAlarm(j)
        /\ env.jobs[j].rc = 1 /\ status_tree[j].status = "failed (1)"

\* the tags in their order of priority
Priority == <<"converting", "tagging", "cleanup", "warning", "error", "downloading">>

\* the fragments that hold a keyword of the tag, in whatever case
Markers(tag) ==
    CASE tag = "converting" -> {"Extracting audio", "post-process", "FFmpeg"}
      [] tag = "tagging" -> {"Adding Metadata", "Embedding", "embedding"}
      [] tag = "cleanup" -> {"Deleting original"}
      [] tag = "warning" -> {"WARNING", "warning"}
      [] tag = "error" -> {"ERROR", "Error", "error"}
      [] tag = "downloading" -> {"[download]", "%", "Destination"}

Has(line, ws) == \E k \in 1..Len(line) : line[k] \in ws

Matching(line) == {n \in 1..Len(Priority) : Has(line, Markers(Priority[n]))}

FirstMatch(line) ==
    IF Matching(line) = {} THEN None
    ELSE Priority[CHOOSE n \in Matching(line) : \A m \in Matching(line) : n <= m]

Returned(fn) == call_args # <<>> /\ call_args.fn = fn /\ call_result # <<>>

\* C15: for every line, infer_status returns the first tag, in the order
\* converting, tagging, cleanup, warning, error, downloading, of which the
\* line holds a keyword in whatever case, and None when it holds none; so
\* embedding with error is tagging, warning with error is warning, and error
\* with a download marker is error.
C15_FirstMatchWins ==
    Returned("infer_status") =>
        LET line == call_args.line
            tag == call_result[1]
        IN  /\ tag = FirstMatch(line)
            /\ (Has(line, {"Embedding", "embedding"}) /\ Has(line, Markers("error"))
                  /\ ~Has(line, Markers("converting"))) => tag = "tagging"
            /\ (Has(line, Markers("warning")) /\ Has(line, Markers("error"))
                  /\ Matching(line) \subseteq {4, 5, 6}) => tag = "warning"
            /\ (Has(line, Markers("error")) /\ Has(line, Markers("downloading"))
                  /\ Matching(line) = {5, 6}) => tag = "error"

\* a line with the error keyword in upper case before the embedding keyword
\* in mixed case was classified as tagging
C15_Witness ==
    /\ Returned("infer_status")
    /\ call_args.line = <<"ERROR", "Embedding">>
    /\ call_result = <<"tagging">>

\* C16: the command build_command returns ends with the URL; in mode single
\* the flag --no-playlist is the argument just before the URL and occurs once,
\* and in mode playlist it does not occur.
C16_FlagBeforeUrl ==
    Returned("build_command") =>
        LET cmd == call_result[1]
            n == Len(cmd)
        IN  /\ n >= 1 /\ cmd[n] = call_args.url
            /\ call_args.playlist_mode = "single" =>
                  /\ n >= 2 /\ cmd[n - 1] = "--no-playlist"
                  /\ Count("--no-playlist", cmd) = 1
            /\ call_args.playlist_mode = "playlist" =>
                  Count("--no-playlist", cmd) = 0

\* a command in mode single was built for a URL that looks like an option
C16_Witness ==
    /\ Returned("build_command")
    /\ call_args.playlist_mode = "single"
    /\ call_args.url = "-x"
    /\ call_args.audio_format = "flac"
    /\ Len(call_result[1]) = 28

\* where the lines of a text start
LineStarts(t) == {s \in 1..Len(t) : s = 1 \/ t[s - 1] = "\n"}

\* the characters of the line that starts at s, without its "\n"
LineSpan(t, s) == {k \in s..Len(t) : \A j \in s..k : t[j] # "\n"}

\* what is left of that line when the blanks at its ends are taken off
Ink(t, s) == {k \in LineSpan(t, s) : t[k] # " "}

Lowest(S) == CHOOSE x \in S : \A y \in S : x <= y

Highest(S) == CHOOSE x \in S : \A y \in S : x >= y

Trimmed(t, s) == SubSeq(t, Lowest(Ink(t, s)), Highest(Ink(t, s)))

\* the lines that are neither blank nor comments
UrlStarts(t) ==
    {s \in LineStarts(t) : Ink(t, s) # {} /\ t[Lowest(Ink(t, s))] # "#"}

Nth(S, n) == CHOOSE x \in S : Cardinality({y \in S : y < x}) = n - 1

\* C17: for every URL source text, read_urls_from_text and the loop of
\* read_urls_from_file return the trimmed lines that are not blank and do not
\* start with "#", each once and in the order of the text, and nothing else.
C17_ParsedInOrder ==
    (Returned("read_urls_from_text") \/ Returned("read_urls_from_file")) =>
        LET t == call_args.text
            r == call_result[1]
        IN  /\ Len(r) = Cardinality(UrlStarts(t))
            /\ \A n \in 1..Len(r) :
                  /\ r[n] = Trimmed(t, Nth(UrlStarts(t), n))
                  /\ r[n] # <<>>
                  /\ r[n][1] \notin {"#", " ", "\n"}
                  /\ r[n][Len(r[n])] \notin {" ", "\n"}

\* the file loop has parsed a text with an indented URL, a comment and a
\* second URL
C17_Witness ==
    /\ Returned("read_urls_from_file")
    /\ call_args.text = <<" ", "b", "\n", "#", "\n", "a">>
    /\ call_result = << << <<"b">>, <<"a">> >> >>

DonePushed == batch >= 1 /\ Count(DoneEvent, pushed[0]) >= 1

DoneHandled == batch >= 1 /\ Count(DoneEvent, sunk[0]) >= 1

\* C18: when the coordinator has pushed done, every job of the batch has
\* completed and its final status event has been pushed; and when the sink
\* has handled done, every job shows a final status.
C18_DoneAfterFinals ==
    /\ DonePushed => \A i \in Jobs : IsDone(i) /\ Reported(i)
    /\ DoneHandled => \A i \in Jobs : status_tree[i].status \in Terminal

\* the first k lines the process of job i prints
FirstLines(i, k) == SubSeq(env.jobs[i].out, 1, k)

\* the tag of the last classified line among ls; a job starts as queued
RECURSIVE LastTag(_)
LastTag(ls) ==
    IF ls = <<>> THEN "queued"
    ELSE IF infer_status(ls[Len(ls)]) # None THEN infer_status(ls[Len(ls)])
    ELSE LastTag(SubSeq(ls, 1, Len(ls) - 1))

\* C19: between two lines, and after the last, the events a runner has pushed
\* are, line by line, one log event followed by a status event with the job's
\* index exactly when the line is classified; and when the sink has handled
\* the events of the first k lines of a job, the job's visible status is the
\* tag of the last classified line among them (queued when there is none),
\* so an unclassified line changes nothing.
C19_StatusFollowsLines ==
    \A i \in Jobs :
        /\ (pc[i] = "READ" \/ PastReading(i)) =>
              FromRunner(i) = EventsOfLines(i, FirstLines(i, pos[i]))
        /\ \A k \in 0..Len(env.jobs[i].out) :
              sunk[i] = EventsOfLines(i, FirstLines(i, k)) =>
                  status_tree[i].status = LastTag(FirstLines(i, k))

\* the sink has handled the events of a classified line and of an
\* unclassified line after it, and the job shows the tag of the first
C19_Witness ==
    \E i \in Jobs :
        /\ Len(env.jobs[i].out) = 2
        /\ infer_status(env.jobs[i].out[1]) = "warning"
        /\ infer_status(env.jobs[i].out[2]) = None
        /\ sunk[i] = Produced(i)
        /\ Len(sunk[i]) = 3
        /\ status_tree[i].status = "warning"

\* what an invocation for job i writes when nothing raises: the start marker
\* with the URL, the output lines, the end marker with the exit code
Marked(i) ==
    << [kind |-> "START", line |-> urls[i], code |-> 0] >>
    \o [k \in 1..Len(env.jobs[i].out) |->
            [kind |-> "LINE", line |-> env.jobs[i].out[k], code |-> 0]]
    \o << [kind |-> "END", line |-> <<>>, code |-> env.jobs[i].rc] >>

Unended(i) == SubSeq(Marked(i), 1, Len(Marked(i)) - 1)

Ended(i) == pc[i] \in {"RETURN", "DONE", "RAISED"}

\* C20 as claimed: what a runner has written to the shared log is always the
\* beginning of start marker, output lines, end marker with the exit code; the
\* end marker is written only after the process exited; and every invocation
\* that has ended has written all of it.
C20_BothMarkers ==
    \A i \in Jobs :
        /\ IsPrefix(logf[i], Marked(i))
        /\ logf[i] = Marked(i) => (proc[i] = "exited" /\ retcode[i] = <<env.jobs[i].rc>>)
        /\ Ended(i) => logf[i] = Marked(i)

\* C20, amended: as claimed for an invocation in which nothing raises.  An
\* invocation whose read or wait raises has written the start marker and the
\* lines it read, and no end marker; one whose spawn raises has written
\* nothing.
C20_MarkersByOutcome ==
    \A i \in Jobs :
        /\ IsPrefix(logf[i], Marked(i))
        /\ logf[i] = Marked(i) => (proc[i] = "exited" /\ retcode[i] = <<env.jobs[i].rc>>)
        /\ Ended(i) =>
              logf[i] = CASE env.jobs[i].fault = "none" -> Marked(i)
                          [] env.jobs[i].fault = "spawn" -> <<>>
                          [] OTHER -> Unended(i)

\* one invocation has ended with both markers around two lines, and another,
\* whose read raised after a line, with the start marker alone
C20_Witness ==
    \E i, j \in Jobs :
        /\ pc[i] = "DONE" /\ env.jobs[i].fault = "none"
        /\ Len(logf[i]) = 4 /\ logf[i][4].kind = "END"
        /\ pc[j] = "DONE" /\ env.jobs[j].fault = "read"
        /\ Len(logf[j]) = 2 /\ logf[j][1].kind = "START"

Rejections == {"Brak URL", "Nieprawidlowy format", "Nieprawidlowy tryb"}

\* C21: a step in which the start action shows one of its three rejections
\* (no URL, audio format not allowed, playlist mode unknown) changes nothing
\* else: the job table, the event channel and the start control stay as they
\* are, no coordinator thread is started and no runner or process either.
C21_RejectedUnchanged ==
    [][(dialog' # dialog /\ dialog' \in Rejections) =>
          UNCHANGED <<start_button, status_tree, batch, args, coord, runners,
                      logs, chan, err_log, sunk, completed>>]_vars

\* a start action was rejected for its playlist mode while the table still
\* showed the jobs of a finished batch
C21_Witness ==
    /\ dialog = "Nieprawidlowy tryb"
    /\ batch >= 1
    /\ start_button = "normal"
    /\ cpc = "returned"
    /\ \E i \in Jobs : status_tree[i].status = "failed (1)"

\* no thread of the batch can take a step any more and nothing is queued
BatchOver ==
    /\ cpc \in {"idle", "returned"}
    /\ Active = {}
    /\ \A i \in Jobs : pc[i] # "pending"
    /\ event_queue = <<>>

\* C22: from the start action of a batch until the sink has handled the done
\* event of that batch the start control is disabled; whenever it is enabled
\* the coordinator and the runners of the earlier batch have ended and the
\* channel is empty, so a batch starts only then; and every event the sink
\* applies was pushed in the batch whose jobs are on display.
C22_OneBatchInFlight ==
    /\ []((batch >= 1 /\ ~DoneHandled) => start_button = "disabled")
    /\ []((batch >= 1 /\ start_button = "normal") => BatchOver)
    /\ [](\A k \in DOMAIN sunk : IsPrefix(sunk[k], pushed[k]))
    /\ [][batch' # batch => BatchOver]_vars

\* a second batch is running: the sink has applied events of its first job,
\* whose index a job of the first batch had, and the control is disabled
C22_Witness ==
    /\ batch = MaxBatches + 1
    /\ start_button = "disabled"
    /\ cpc = "collect"
    /\ Len(sunk[1]) >= 2
    /\ status_tree[1].status = "error"

\* the coordinator's final status event of job i is the last event pushed
\* about it, and all before it are the events of the lines its runner read
FinalIsLast(i) ==
    /\ IsDone(i)
    /\ pushed[i] # <<>>
    /\ pushed[i][Len(pushed[i])] = StatusEvent(i, Outcome(i))
    /\ SubSeq(pushed[i], 1, Len(pushed[i]) - 1)
          = EventsOfLines(i, FirstLines(i, pos[i]))

\* C23: when the coordinator has reported a job, its final status event is
\* the last event pushed about the job, after every log and status event of
\* the job's runner, and no event about the job is pushed after it; so once
\* the sink has drained the channel the job shows its final status (done,
\* failed with the code, or error), whatever tags its lines had set.
C23_FinalStatusLast ==
    /\ [](\A i \in Jobs :
            Reported(i) =>
               /\ FinalIsLast(i)
               /\ event_queue = <<>> =>
                     /\ status_tree[i].status = Outcome(i)
                     /\ status_tree[i].status \in Terminal)
    /\ [][batch' = batch =>
            \A i \in Jobs : Reported(i) => pushed'[i] = pushed[i]]_vars

\* the channel is drained and a job whose process ended with code 0 after a
\* line classified as an error, which the sink had shown, is done
C23_Witness ==
    /\ event_queue = <<>>
    /\ \E i \in Jobs :
          /\ Reported(i)
          /\ pos[i] = 2
          /\ LastTag(FirstLines(i, pos[i])) = "error"
          /\ StatusEvent(i, "error") \in {sunk[i][k] : k \in 1..Len(sunk[i]) - 1}
          /\ status_tree[i].status = "done"

====
